---- MODULE Spec2Model ----
(***************************************************************************)
(* A model of the URI template library in src/uri.go (Parse and            *)
(* Template.Expand) and of the one-shot Expand of src/unnamed/part_000.    *)
(*                                                                         *)
(* Go strings are modelled as sequences of bytes (0..255), because the     *)
(* code slices, measures and percent-encodes strings byte by byte.         *)
(***************************************************************************)
EXTENDS Integers, Sequences, FiniteSets

VARIABLES
    pc,             \* position of the caller: "parse", "expand", "done", "escape"
    raw,            \* the template string handed to Parse
    template,       \* what Parse returned
    values,         \* the environment handed to Template.Expand
    result,         \* what Template.Expand returned
    earlier,        \* an earlier call of Template.Expand on the same Template
    src,            \* the string handed to escape
    allowReserved,  \* the flag handed to escape
    escaped         \* what escape returned

vars == <<pc, raw, template, values, result, earlier, src, allowReserved, escaped>>

(***************************************************************************)
(* Bytes of the syntax, as the source writes them.                         *)
(***************************************************************************)
PERCENT == 37
LBRACE == 123
RBRACE == 125
COMMA == 44
STAR == 42
COLON == 58
PLUS == 43
MINUS == 45
DOT == 46
SLASH == 47
SEMI == 59
QUERY == 63
AMP == 38
HASH == 35
EQUALS == 61

Bytes == 0..255

Upper == 65..90
Lower == 97..122
Digit == 48..57

\* A-Za-z0-9\-._~
Unreserved == Upper \cup Lower \cup Digit \cup {45, 46, 95, 126}

\* A-Za-z0-9\-._~:/?#[\]@!$&'()*+,;=
ReservedAllowed ==
    Unreserved \cup {58, 47, 63, 35, 91, 93, 64, 33, 36, 38, 39, 40, 41, 42, 43, 44, 59, 61}

\* "0123456789ABCDEF"
hex == <<48, 49, 50, 51, 52, 53, 54, 55, 56, 57, 65, 66, 67, 68, 69, 70>>

HexDigit == Digit \cup (65..70) \cup (97..102)

(***************************************************************************)
(* Helpers for Go's string functions.                                      *)
(***************************************************************************)
Contains(s, c) == \E i \in 1..Len(s) : s[i] = c

HasSuffix(s, c) == Len(s) > 0 /\ s[Len(s)] = c

IndexByte(s, c) == CHOOSE i \in 1..Len(s) : s[i] = c /\ \A j \in 1..(i - 1) : s[j] # c

\* strings.Split(s, sep) for a one-byte separator: always at least one piece.
RECURSIVE Split(_, _)
Split(s, c) ==
    IF Contains(s, c)
    THEN LET i == IndexByte(s, c)
         IN <<SubSeq(s, 1, i - 1)>> \o Split(SubSeq(s, i + 1, Len(s)), c)
    ELSE <<s>>

(***************************************************************************)
(* UTF-8: the width of the rune that starts at s[i], as utf8.DecodeRune    *)
(* reports it. An invalid or truncated encoding is one rune (RuneError)    *)
(* of width 1. The regular expressions of the source walk their input      *)
(* rune by rune.                                                           *)
(***************************************************************************)
IsCont(s, i) == i <= Len(s) /\ s[i] \in 128..191

SecondOK(s, i, lo, hi) == i <= Len(s) /\ s[i] \in lo..hi

RuneWidth(s, i) ==
    LET b == s[i]
    IN IF b < 128 THEN 1
       ELSE IF b \in 194..223 /\ IsCont(s, i + 1) THEN 2
       ELSE IF b \in 224..239
               /\ SecondOK(s, i + 1, IF b = 224 THEN 160 ELSE 128, IF b = 237 THEN 159 ELSE 191)
               /\ IsCont(s, i + 2) THEN 3
       ELSE IF b \in 240..244
               /\ SecondOK(s, i + 1, IF b = 240 THEN 144 ELSE 128, IF b = 244 THEN 143 ELSE 191)
               /\ IsCont(s, i + 2) /\ IsCont(s, i + 3) THEN 4
       ELSE 1

(***************************************************************************)
(* Percent-encoding.                                                       *)
(***************************************************************************)
pctEncodeLower(s) ==
    LET low == <<48, 49, 50, 51, 52, 53, 54, 55, 56, 57, 97, 98, 99, 100, 101, 102>>
    IN [k \in 1..(3 * Len(s)) |->
          LET b == s[((k - 1) \div 3) + 1]
          IN CASE (k - 1) % 3 = 0 -> PERCENT
               [] (k - 1) % 3 = 1 -> low[(b \div 16) + 1]
               [] OTHER -> low[(b % 16) + 1]]

\* dst[i*3 : i*3+3] = '%', hex[b/16], hex[b%16] for every byte b of src
pctEncode(s) ==
    [k \in 1..(3 * Len(s)) |->
        LET b == s[((k - 1) \div 3) + 1]
        IN CASE (k - 1) % 3 = 0 -> PERCENT
             [] (k - 1) % 3 = 1 -> hex[(b \div 16) + 1]
             [] OTHER -> hex[(b % 16) + 1]]

\* regexp.ReplaceAllFunc for a pattern that is one negated class [^...]:
\* every rune outside `allowed` is one match, replaced by pctEncode of its bytes.
RECURSIVE ReplaceAllFunc(_, _, _)
ReplaceAllFunc(allowed, s, i) ==
    IF i > Len(s) THEN <<>>
    ELSE LET w == RuneWidth(s, i)
             rune == SubSeq(s, i, i + w - 1)
         IN (IF w = 1 /\ s[i] \in allowed THEN rune ELSE pctEncode(rune))
            \o ReplaceAllFunc(allowed, s, i + w)

escape(s, allow) ==
    IF allow
    THEN ReplaceAllFunc(ReservedAllowed, s, 1)
    ELSE ReplaceAllFunc(Unreserved, s, 1)

(***************************************************************************)
(* The parsed form: templatePart and templateTerm, with Go's zero values.  *)
(***************************************************************************)
\* An int is kept exactly, as its sign and the decimal digits of its magnitude
\* without leading zeros (no digits for 0): an int64 does not fit the integers
\* of TLC.
Int64Zero == [neg |-> FALSE, mag |-> <<>>]

ZeroTerm == [name |-> <<>>, explode |-> FALSE, truncate |-> Int64Zero]

ZeroPart ==
    [raw |-> <<>>, terms |-> <<>>, first |-> <<>>, sep |-> <<>>,
     named |-> FALSE, ifemp |-> <<>>, allowReserved |-> FALSE]

(***************************************************************************)
(* strconv.ParseInt(s, 10, 0) on a 64-bit build, and the comparisons the   *)
(* code makes with its result. A syntax error returns 0, a range error     *)
(* returns the nearest int64.                                              *)
(***************************************************************************)
\* 9223372036854775807
MaxInt64Digits == <<57, 50, 50, 51, 51, 55, 50, 48, 51, 54, 56, 53, 52, 55, 55, 53, 56, 48, 55>>

\* 9223372036854775808, the magnitude of the least int64
MinInt64Digits == <<57, 50, 50, 51, 51, 55, 50, 48, 51, 54, 56, 53, 52, 55, 55, 53, 56, 48, 56>>

RECURSIVE StripZeros(_)
StripZeros(d) == IF Len(d) > 0 /\ d[1] = 48 THEN StripZeros(Tail(d)) ELSE d

\* the number a digit string without leading zeros writes
RECURSIVE DecimalValue(_)
DecimalValue(d) ==
    IF Len(d) = 0 THEN 0
    ELSE 10 * DecimalValue(SubSeq(d, 1, Len(d) - 1)) + (d[Len(d)] - 48)

\* the decimal digits of a natural number
RECURSIVE Decimal(_)
Decimal(n) == IF n < 10 THEN <<48 + n>> ELSE Decimal(n \div 10) \o <<48 + (n % 10)>>

\* d > limit, for two digit strings without leading zeros
DigitsGreater(d, limit) ==
    \/ Len(d) > Len(limit)
    \/ /\ Len(d) = Len(limit)
       /\ \E i \in 1..Len(d) :
            /\ d[i] > limit[i]
            /\ \A j \in 1..(i - 1) : d[j] = limit[j]

\* 18446744073709551615
MaxUint64Digits ==
    <<49, 56, 52, 52, 54, 55, 52, 52, 48, 55, 51, 55, 48, 57, 53, 53, 49, 54, 49, 53>>

\* the bytes of s before its first byte that is no digit
RECURSIVE DigitRun(_)
DigitRun(s) ==
    IF Len(s) > 0 /\ s[1] \in Digit THEN <<s[1]>> \o DigitRun(Tail(s)) ELSE <<>>

\* ParseUint reads s byte by byte and returns at the first byte that fails:
\* a syntax error at a byte that is no digit, a range error at the digit that
\* takes the number past the greatest uint64. The number only grows, so the
\* range error comes first exactly when the digits before the first byte that
\* is no digit write a number past the greatest uint64.
ParseInt(s) ==
    LET neg == Len(s) > 0 /\ s[1] = MINUS
        signed == Len(s) > 0 /\ s[1] \in {PLUS, MINUS}
        digits == IF signed THEN Tail(s) ELSE s
        run == DigitRun(digits)
        sig == StripZeros(run)
        limit == IF neg THEN MinInt64Digits ELSE MaxInt64Digits
    IN IF DigitsGreater(sig, MaxUint64Digits)
       THEN [err |-> TRUE, n |-> [neg |-> neg, mag |-> limit]]
       ELSE IF Len(digits) = 0 \/ Len(run) < Len(digits)
       THEN [err |-> TRUE, n |-> Int64Zero]
       ELSE IF DigitsGreater(sig, limit)
       THEN [err |-> TRUE, n |-> [neg |-> neg, mag |-> limit]]
       ELSE [err |-> FALSE, n |-> [neg |-> neg /\ Len(sig) > 0, mag |-> sig]]

\* n > 0
IsPositive(n) == ~n.neg /\ Len(n.mag) > 0

\* len > n, for the length of a string
LenExceeds(len, n) == n.neg \/ DigitsGreater(StripZeros(Decimal(len)), n.mag)

\* ^([A-Za-z0-9_\.]|%[0-9A-Fa-f][0-9A-Fa-f])+$
NameChar == Upper \cup Lower \cup Digit \cup {95, 46}

RECURSIVE NameFrom(_, _)
NameFrom(s, i) ==
    IF i > Len(s) THEN TRUE
    ELSE IF s[i] \in NameChar THEN NameFrom(s, i + 1)
    ELSE IF /\ s[i] = PERCENT
            /\ i + 2 <= Len(s)
            /\ s[i + 1] \in HexDigit
            /\ s[i + 2] \in HexDigit
         THEN NameFrom(s, i + 3)
    ELSE FALSE

validname(s) == Len(s) > 0 /\ NameFrom(s, 1)

(***************************************************************************)
(* parseTerm: one comma-separated item of an expression body.              *)
(***************************************************************************)
parseTerm(spec) ==
    LET explode == HasSuffix(spec, STAR)
        term == IF explode THEN SubSeq(spec, 1, Len(spec) - 1) ELSE spec
        split == Split(term, COLON)
        parsed == IF Len(split) = 2 THEN ParseInt(split[2])
                  ELSE [err |-> FALSE, n |-> Int64Zero]
        name == IF Len(split) = 1 THEN term
                ELSE IF Len(split) = 2 THEN split[1]
                ELSE <<>>
        truncate == parsed.n
    IN [err |-> \/ parsed.err
                \/ Len(split) > 2
                \/ ~validname(name)
                \/ (explode /\ IsPositive(truncate)),
        term |-> [name |-> name, explode |-> explode, truncate |-> truncate]]

(***************************************************************************)
(* parseExpression: the body between { and }. expression[0] is read        *)
(* before any length check, so an empty body is a run-time panic.          *)
(***************************************************************************)
Operators == {PLUS, DOT, SLASH, SEMI, QUERY, AMP, HASH}

OperatorPart(op) ==
    CASE op = PLUS  -> [ZeroPart EXCEPT !.sep = <<COMMA>>, !.allowReserved = TRUE]
      [] op = DOT   -> [ZeroPart EXCEPT !.first = <<DOT>>, !.sep = <<DOT>>]
      [] op = SLASH -> [ZeroPart EXCEPT !.first = <<SLASH>>, !.sep = <<SLASH>>]
      [] op = SEMI  -> [ZeroPart EXCEPT !.first = <<SEMI>>, !.sep = <<SEMI>>, !.named = TRUE]
      [] op = QUERY -> [ZeroPart EXCEPT !.first = <<QUERY>>, !.sep = <<AMP>>,
                                        !.named = TRUE, !.ifemp = <<EQUALS>>]
      [] op = AMP   -> [ZeroPart EXCEPT !.first = <<AMP>>, !.sep = <<AMP>>,
                                        !.named = TRUE, !.ifemp = <<EQUALS>>]
      [] op = HASH  -> [ZeroPart EXCEPT !.first = <<HASH>>, !.sep = <<COMMA>>,
                                        !.allowReserved = TRUE]
      [] OTHER      -> [ZeroPart EXCEPT !.sep = <<COMMA>>]

\* the loop over rawterms: it stops at the first term that fails to parse,
\* and the terms after it keep their zero value
RECURSIVE parseTerms(_, _, _)
parseTerms(rawterms, i, terms) ==
    IF i > Len(rawterms) THEN [err |-> FALSE, terms |-> terms]
    ELSE LET r == parseTerm(rawterms[i])
             next == [terms EXCEPT ![i] = r.term]
         IN IF r.err THEN [err |-> TRUE, terms |-> next]
            ELSE parseTerms(rawterms, i + 1, next)

parseExpression(expression) ==
    IF Len(expression) = 0
    THEN [panic |-> TRUE, err |-> FALSE, part |-> ZeroPart]
    ELSE LET config == OperatorPart(expression[1])
             body == IF expression[1] \in Operators THEN Tail(expression) ELSE expression
             rawterms == Split(body, COMMA)
             r == parseTerms(rawterms, 1, [k \in 1..Len(rawterms) |-> ZeroTerm])
         IN [panic |-> FALSE, err |-> r.err, part |-> [config EXCEPT !.terms = r.terms]]

(***************************************************************************)
(* Parse. The result is (template, err): nil is TRUE where the returned    *)
(* pointer is nil, and panic is TRUE where Parse does not return at all.   *)
(***************************************************************************)
RECURSIVE parseSegments(_, _, _)
parseSegments(split, j, parts) ==
    IF j > Len(split) THEN [panic |-> FALSE, err |-> FALSE, parts |-> parts]
    ELSE IF j = 1
    THEN IF Contains(split[1], RBRACE)
         THEN [panic |-> FALSE, err |-> TRUE, parts |-> parts]
         ELSE parseSegments(split, 2, [parts EXCEPT ![1].raw = split[1]])
    ELSE LET subsplit == Split(split[j], RBRACE)
         IN IF Len(subsplit) # 2
            THEN [panic |-> FALSE, err |-> TRUE, parts |-> parts]
            ELSE LET e == parseExpression(subsplit[1])
                     withExpr == [parts EXCEPT ![2 * (j - 1)] = e.part]
                 IN IF e.panic THEN [panic |-> TRUE, err |-> FALSE, parts |-> parts]
                    ELSE IF e.err THEN [panic |-> FALSE, err |-> TRUE, parts |-> withExpr]
                    ELSE parseSegments(split, j + 1,
                                       [withExpr EXCEPT ![2 * (j - 1) + 1].raw = subsplit[2]])

Parse(r) ==
    LET split == Split(r, LBRACE)
        built == parseSegments(split, 1, [k \in 1..(2 * Len(split) - 1) |-> ZeroPart])
    IN [panic |-> built.panic,
        err |-> built.err,
        nil |-> built.panic \/ built.err,
        parts |-> IF built.panic \/ built.err THEN <<>> ELSE built.parts]

(***************************************************************************)
(* Values of the environment (map[string]interface{}): a string, a list    *)
(* ([]interface{}) of strings, or a map (map[string]interface{}) of        *)
(* strings, kept as a set of <<key, value>> pairs with distinct keys. A    *)
(* scalar that is not a string stands here as its fmt.Sprintf("%v") form.  *)
(***************************************************************************)
StringValue(s) == [kind |-> "string", s |-> s, a |-> <<>>, m |-> {}]

ListValue(a) == [kind |-> "list", s |-> <<>>, a |-> a, m |-> {}]

MapValue(m) == [kind |-> "map", s |-> <<>>, a |-> <<>>, m |-> m]

\* the orders in which `for k, value := range m` may visit the entries of m
RangeOrders(m) ==
    {o \in [1..Cardinality(m) -> m] : \A i, j \in 1..Cardinality(m) : o[i] = o[j] => i = j}

(***************************************************************************)
(* The expander. Every operator takes the buffer and returns the buffer    *)
(* after the writes of the function it models.                             *)
(***************************************************************************)
expandName(t, buf, name, empty) ==
    IF t.named
    THEN buf \o name \o (IF empty THEN t.ifemp ELSE <<EQUALS>>)
    ELSE buf

\* s[:term.truncate] when len(s) > term.truncate && term.truncate > 0: bytes
Truncated(term, s) ==
    IF LenExceeds(Len(s), term.truncate) /\ IsPositive(term.truncate)
    THEN SubSeq(s, 1, DecimalValue(term.truncate.mag))
    ELSE s

expandString(t, buf, term, s) ==
    LET cut == Truncated(term, s)
    IN expandName(t, buf, term.name, Len(cut) = 0) \o escape(cut, t.allowReserved)

RECURSIVE expandElements(_, _, _, _, _)
expandElements(t, buf, term, a, i) ==
    IF i > Len(a) THEN buf
    ELSE LET joined == IF i > 1
                       THEN buf \o (IF term.explode THEN t.sep ELSE <<COMMA>>)
                       ELSE buf
             cut == Truncated(term, a[i])
             withName == IF t.named /\ term.explode
                         THEN expandName(t, joined, term.name, Len(cut) = 0)
                         ELSE joined
         IN expandElements(t, withName \o escape(cut, t.allowReserved), term, a, i + 1)

expandArray(t, buf, term, a) ==
    IF Len(a) = 0 THEN buf
    ELSE expandElements(t,
                        IF ~term.explode THEN expandName(t, buf, term.name, FALSE) ELSE buf,
                        term, a, 1)

RECURSIVE expandEntries(_, _, _, _, _, _)
expandEntries(t, buf, term, order, i, firstLen) ==
    IF i > Len(order) THEN buf
    ELSE LET joined == IF firstLen # Len(buf)
                       THEN buf \o (IF term.explode THEN t.sep ELSE <<COMMA>>)
                       ELSE buf
             k == order[i][1]
             s == order[i][2]
             pair == escape(k, t.allowReserved)
                     \o (IF term.explode THEN <<EQUALS>> ELSE <<COMMA>>)
                     \o escape(s, t.allowReserved)
         IN expandEntries(t, joined \o pair, term, order, i + 1, firstLen)

\* the buffers expandMap may leave, one for each order of the range over m
expandMap(t, buf, term, m) ==
    IF Cardinality(m) = 0 THEN {buf}
    ELSE LET named == IF ~term.explode
                      THEN expandName(t, buf, term.name, Cardinality(m) = 0)
                      ELSE buf
         IN {expandEntries(t, named, term, o, 1, Len(named)) : o \in RangeOrders(m)}

SeparatedAlways(t, buf, firstLen) == buf \o t.sep

\* if buf.Len() != firstLen { buf.WriteString(t.sep) }
Separated(t, buf, firstLen) == IF Len(buf) # firstLen THEN buf \o t.sep ELSE buf

MapTruncatedNever(term) == FALSE

\* if term.truncate > 0 { return errors.New("cannot truncate a map expansion") }
MapTruncated(term) == IsPositive(term.truncate)

\* the loop over t.terms of templatePart.expand, from term i on
RECURSIVE expandTerms(_, _, _, _, _)
expandTerms(t, buf, vals, i, firstLen) ==
    IF i > Len(t.terms) THEN {[err |-> FALSE, buf |-> buf]}
    ELSE LET term == t.terms[i]
         IN IF term.name \notin DOMAIN vals
            THEN expandTerms(t, buf, vals, i + 1, firstLen)
            ELSE LET value == vals[term.name]
                     sepd == Separated(t, buf, firstLen)
                 IN CASE value.kind = "string" ->
                           expandTerms(t, expandString(t, sepd, term, value.s),
                                       vals, i + 1, firstLen)
                      [] value.kind = "list" ->
                           expandTerms(t, expandArray(t, sepd, term, value.a),
                                       vals, i + 1, firstLen)
                      [] OTHER ->
                           IF MapTruncated(term)
                           THEN {[err |-> TRUE, buf |-> sepd]}
                           ELSE UNION {expandTerms(t, b, vals, i + 1, firstLen) :
                                         b \in expandMap(t, sepd, term, value.m)}

RolledBackNever(buf, zeroLen, firstLen) == buf

\* if buf.Len() == firstLen { original := buf.Bytes()[:zeroLen]; buf.Reset(); buf.Write(original) }
RolledBack(buf, zeroLen, firstLen) ==
    IF Len(buf) = firstLen THEN SubSeq(buf, 1, zeroLen) ELSE buf

\* templatePart.expand
expand(t, buf, vals) ==
    IF Len(t.raw) > 0 THEN {[err |-> FALSE, buf |-> buf \o t.raw]}
    ELSE LET zeroLen == Len(buf)
             firstLen == Len(buf \o t.first)
         IN {IF r.err THEN r
             ELSE [err |-> FALSE, buf |-> RolledBack(r.buf, zeroLen, firstLen)] :
               r \in expandTerms(t, buf \o t.first, vals, 1, firstLen)}

\* the loop over t.parts of Template.Expand, from part i on
RECURSIVE expandParts(_, _, _, _)
expandParts(parts, buf, vals, i) ==
    IF i > Len(parts) THEN {[err |-> FALSE, out |-> buf]}
    ELSE UNION {IF r.err THEN {[err |-> TRUE, out |-> <<>>]}
                ELSE expandParts(parts, r.buf, vals, i + 1) :
                  r \in expand(parts[i], buf, vals)}

\* Template.Expand with a map[string]interface{}: the results it may return
TemplateExpand(t, vals) == expandParts(t.parts, <<>>, vals, 1)

(***************************************************************************)
(* Inputs. Templates are built from the grammar the parser reads; the      *)
(* environments bind each variable name to a value of every kind, or       *)
(* leave it out.                                                           *)
(***************************************************************************)
MaxTerms == 2

VarNames == {<<120>>, <<121>>}                        \* x, y

\* no modifier, explode, prefix length 1
Modifiers == {<<>>, <<STAR>>, <<COLON, 49>>}

TermSpecs == {n \o m : n \in VarNames, m \in Modifiers}

RECURSIVE Bodies(_)
Bodies(k) ==
    IF k = 1 THEN TermSpecs
    ELSE {b \o <<COMMA>> \o s : b \in Bodies(k - 1), s \in TermSpecs}

OpPrefixes == {<<>>} \cup {<<o>> : o \in Operators}

Braced(o, b) == <<LBRACE>> \o o \o b \o <<RBRACE>>

\* p{...}s for every operator and every list of one to MaxTerms terms,
\* {...}q{...} for two one-term expressions, and p{x:9999999999}s and
\* p{?y:9223372036854775807}s for prefix lengths beyond 32 bits
Templates ==
    {<<112>> \o Braced(o, b) \o <<115>> :
        o \in OpPrefixes, b \in UNION {Bodies(k) : k \in 1..MaxTerms}}
    \cup
    {Braced(o1, s1) \o <<113>> \o Braced(o2, s2) :
        o1 \in {<<>>, <<QUERY>>}, o2 \in {<<>>, <<SEMI>>}, s1 \in TermSpecs, s2 \in TermSpecs}
    \cup
    {<<112>> \o Braced(<<>>, <<120, COLON, 57, 57, 57, 57, 57, 57, 57, 57, 57, 57>>) \o <<115>>,
     <<112>> \o Braced(<<QUERY>>, <<121, COLON>> \o MaxInt64Digits) \o <<115>>}

\* "", "éa" (two-byte rune, then a), [], ["a", "b c"], {}, {"k": "v w"}
ValueSet ==
    {StringValue(<<>>), StringValue(<<195, 169, 97>>),
     ListValue(<<>>), ListValue(<< <<97>>, <<98, 32, 99>> >>),
     MapValue({}), MapValue({<< <<107>>, <<118, 32, 119>> >>})}

Envs == UNION {[D -> ValueSet] : D \in SUBSET VarNames}

(***************************************************************************)
(* The state machine of one call of Expand(path, expansions) of            *)
(* src/unnamed/part_000: Parse, then Template.Expand on the parsed         *)
(* template.                                                               *)
(***************************************************************************)
NoTemplate == [panic |-> FALSE, err |-> FALSE, nil |-> TRUE, parts |-> <<>>]

NoResult == [err |-> FALSE, out |-> <<>>]

NoCall == [made |-> FALSE, values |-> <<>>, result |-> NoResult]

Idle ==
    /\ template = NoTemplate
    /\ result = NoResult
    /\ earlier = NoCall
    /\ src = <<>>
    /\ allowReserved = FALSE
    /\ escaped = <<>>

Init ==
    /\ pc = "parse"
    /\ raw \in Templates
    /\ values \in Envs
    /\ Idle

\* template, err := Parse(path); if err != nil { return "", err }
ParseStep ==
    /\ pc = "parse"
    /\ template' = Parse(raw)
    /\ pc' = IF template'.panic THEN "panic"
             ELSE IF template'.err THEN "done"
             ELSE "expand"
    /\ result' = IF template'.err THEN [err |-> TRUE, out |-> <<>>] ELSE result
    /\ UNCHANGED <<raw, values, earlier, src, allowReserved, escaped>>

\* return template.Expand(values)
ExpandStep ==
    /\ pc = "expand"
    /\ result' \in TemplateExpand(template, values)
    /\ pc' = "done"
    /\ UNCHANGED <<raw, template, values, earlier, src, allowReserved, escaped>>

Next == ParseStep \/ ExpandStep

Spec == Init /\ [][Next]_vars

(***************************************************************************)
(* Reuse of one Template: after an expansion the caller expands the same   *)
(* Template again with another (or the same) environment, and keeps one    *)
(* of the calls made so far for comparison.                                *)
(***************************************************************************)
\* p{x}s and p{x*}s under every operator
ReuseTemplates ==
    {<<112>> \o Braced(o, <<120>> \o m) \o <<115>> : o \in OpPrefixes, m \in {<<>>, <<STAR>>}}

\* x is absent, "a", ["a", "b"], {"k": "v"} or {"k": "v", "j": "w"}
ReuseEnvs ==
    {<<>>}
    \cup {[n \in {<<120>>} |-> v] :
            v \in {StringValue(<<97>>),
                   ListValue(<< <<97>>, <<98>> >>),
                   MapValue({<< <<107>>, <<118>> >>}),
                   MapValue({<< <<107>>, <<118>> >>, << <<106>>, <<119>> >>})}}

InitReuse ==
    /\ pc = "parse"
    /\ raw \in ReuseTemplates
    /\ values \in ReuseEnvs
    /\ Idle

\* the next call of Template.Expand on the same Template
Rebind ==
    /\ pc = "done"
    /\ ~template.nil
    /\ \E v \in ReuseEnvs : values' = v
    /\ earlier' \in {earlier, [made |-> TRUE, values |-> values, result |-> result]}
    /\ pc' = "expand"
    /\ UNCHANGED <<raw, template, result, src, allowReserved, escaped>>

NextReuse == ParseStep \/ ExpandStep \/ Rebind

SpecReuse == InitReuse /\ [][NextReuse]_vars

(***************************************************************************)
(* Parse alone, on well-formed and malformed templates; the parsed         *)
(* template is then expanded with the empty environment.                   *)
(***************************************************************************)
MaxN == 11

\* "", x, %4A, %4, x-
ParseNames == {<<>>, <<120>>, <<37, 52, 65>>, <<37, 52>>, <<120, 45>>}

\* 0..MaxN in decimal, and "", -1, a, 1:2, 99999999999999999999 (out of
\* range), 9999999999, 9223372036854775807, -9223372036854775808, and a
\* byte that is no digit after digits past the greatest uint64
\* (18446744073709551616a) and after digits within it (18446744073709551615a)
Lengths ==
    {Decimal(n) : n \in 0..MaxN}
    \cup {<<>>, <<45, 49>>, <<97>>, <<49, 58, 50>>,
          <<57, 57, 57, 57, 57, 57, 57, 57, 57, 57, 57, 57, 57, 57, 57, 57, 57, 57, 57, 57>>,
          <<57, 57, 57, 57, 57, 57, 57, 57, 57, 57>>,
          MaxInt64Digits, <<MINUS>> \o MinInt64Digits,
          SubSeq(MaxUint64Digits, 1, 19) \o <<54, 97>>,
          MaxUint64Digits \o <<97>>}

ParseTermSpecs ==
    {n \o c \o s : n \in ParseNames,
                   c \in {<<>>} \cup {<<COLON>> \o l : l \in Lengths},
                   s \in {<<>>, <<STAR>>}}

\* "", a, }, {, {x, {x}}, {{x}, {x}{}, a{x}b{y}c, a{x}b{y:}c, {x,,y}, {x,y:-1}, {x:2,y:0*}
OtherInputs ==
    {<<>>, <<97>>, <<RBRACE>>, <<LBRACE>>, <<LBRACE, 120>>,
     <<LBRACE, 120, RBRACE, RBRACE>>, <<LBRACE, LBRACE, 120, RBRACE>>,
     <<LBRACE, 120, RBRACE, LBRACE, RBRACE>>,
     <<97, LBRACE, 120, RBRACE, 98, LBRACE, 121, RBRACE, 99>>,
     <<97, LBRACE, 120, RBRACE, 98, LBRACE, 121, COLON, RBRACE, 99>>,
     <<LBRACE, 120, COMMA, COMMA, 121, RBRACE>>,
     <<LBRACE, 120, COMMA, 121, COLON, 45, 49, RBRACE>>,
     <<LBRACE, 120, COLON, 50, COMMA, 121, COLON, 48, STAR, RBRACE>>}

ParseInputs == {Braced(o, s) : o \in OpPrefixes, s \in ParseTermSpecs} \cup OtherInputs

InitParse ==
    /\ pc = "parse"
    /\ raw \in ParseInputs
    /\ values = <<>>
    /\ Idle

SpecParse == InitParse /\ [][Next]_vars

(***************************************************************************)
(* The encoding of one value under each operator: an expression {x} with   *)
(* the operator is parsed, and the value is written with                   *)
(* escape(s, t.allowReserved). The values are every single byte and short  *)
(* strings over bytes of every class: a, ~, /, %, space, the bytes of é    *)
(* (C3 A9) and of the euro sign (E2 82 AC), and FF.                        *)
(***************************************************************************)
MaxEscLen == 3

EscBytes == {97, 126, 47, 37, 32, 195, 169, 226, 130, 172, 255}

EscapeInputs ==
    {<<b>> : b \in Bytes} \cup UNION {[1..n -> EscBytes] : n \in 0..MaxEscLen}

\* {x}, {+x}, {.x}, {/x}, {;x}, {?x}, {&x}, {#x}
EscapeTemplates == {Braced(o, <<120>>) : o \in OpPrefixes}

InitEscape ==
    /\ pc = "escape"
    /\ raw \in EscapeTemplates
    /\ src \in EscapeInputs
    /\ values = <<>>
    /\ template = NoTemplate
    /\ result = NoResult
    /\ earlier = NoCall
    /\ allowReserved = FALSE
    /\ escaped = <<>>

\* buf.WriteString(escape(s, t.allowReserved)) for the expression of raw
EscapeStep ==
    /\ pc = "escape"
    /\ template' = Parse(raw)
    /\ allowReserved' = template'.parts[2].allowReserved
    /\ escaped' = escape(src, allowReserved')
    /\ pc' = "escaped"
    /\ UNCHANGED <<raw, values, result, earlier, src>>

NextEscape == EscapeStep

SpecEscape == InitEscape /\ [][NextEscape]_vars

(***************************************************************************)
(* Vocabulary of the properties.                                           *)
(***************************************************************************)
\* Template.Expand has returned for a template that Parse accepted
Expanded == pc = "done" /\ ~template.nil

IsExpression(t) == Len(t.terms) > 0

Bound(term) == term.name \in DOMAIN values

\* every term of every expression of the parsed template satisfies P
AllTerms(P(_, _)) ==
    \A i \in 1..Len(template.parts) :
        \A j \in 1..Len(template.parts[i].terms) :
            P(template.parts[i], template.parts[i].terms[j])

SomeTerm(P(_, _)) ==
    \E i \in 1..Len(template.parts) :
        \E j \in 1..Len(template.parts[i].terms) :
            P(template.parts[i], template.parts[i].terms[j])

\* the literal parts of the template, concatenated
RECURSIVE LiteralText(_, _)
LiteralText(parts, i) ==
    IF i > Len(parts) THEN <<>> ELSE parts[i].raw \o LiteralText(parts, i + 1)

(***************************************************************************)
(* C1  Prefix suppression.                                                 *)
(***************************************************************************)
EmptyBinding(t, term) ==
    \/ ~Bound(term)
    \/ values[term.name] \in {StringValue(<<>>), ListValue(<<>>), MapValue({})}

\* C1 as claimed: when every term of every expression is absent or bound to
\* an empty string, an empty list or an empty map, the expansion succeeds and
\* its output is the literal parts alone, under every operator.
C1_PrefixSuppression ==
    (Expanded /\ AllTerms(EmptyBinding))
        => result = [err |-> FALSE, out |-> LiteralText(template.parts, 1)]

Suppressed(t, term) ==
    \/ ~Bound(term)
    \/ values[term.name] = ListValue(<<>>)
    \/ values[term.name] = MapValue({}) /\ ~IsPositive(term.truncate)
    \/ values[term.name] = StringValue(<<>>) /\ ~t.named

\* C1 as amended: when every term of every expression is absent, or bound to an
\* empty list, or bound to an empty map and without a prefix length, or bound
\* to an empty string under an operator without named pairs (none + . / #),
\* the expansion succeeds and its output is the literal parts alone.
C1_PrefixSuppressionAmended ==
    (Expanded /\ AllTerms(Suppressed))
        => result = [err |-> FALSE, out |-> LiteralText(template.parts, 1)]

EmptyStringAfterPrefix(t, term) ==
    /\ t.first # <<>>
    /\ Bound(term)
    /\ values[term.name] = StringValue(<<>>)

\* an expression with a prefix character whose term is bound to the empty
\* string was expanded, and the output is the literal text
C1_Witness ==
    /\ Expanded
    /\ AllTerms(Suppressed)
    /\ SomeTerm(EmptyStringAfterPrefix)
    /\ result.out = LiteralText(template.parts, 1)
    /\ result.out # <<>>

(***************************************************************************)
(* C2  Absent terms are omitted entirely.                                  *)
(***************************************************************************)
PresentTerms(t) == SelectSeq(t.terms, LAMBDA term : Bound(term))

NonEmptyScalar(t, term) ==
    Bound(term) =>
        values[term.name].kind = "string" /\ values[term.name].s # <<>>

\* what one present term renders on its own: its name= under a named
\* operator, then its encoded value
Rendering(t, term) == expandString(t, <<>>, term, values[term.name].s)

RECURSIVE JoinRenderings(_, _, _)
JoinRenderings(t, terms, i) ==
    IF i > Len(terms) THEN <<>>
    ELSE (IF i > 1 THEN t.sep ELSE <<>>)
         \o Rendering(t, terms[i])
         \o JoinRenderings(t, terms, i + 1)

\* the expression with its absent terms struck out
PresentOnly(t) == [t EXCEPT !.terms = PresentTerms(t)]

\* what Template.Expand may return when the absent terms leave nothing: an
\* expression without a present term contributes nothing, every other
\* expression what its present terms alone contribute
RECURSIVE WithoutAbsent(_, _, _)
WithoutAbsent(parts, buf, i) ==
    IF i > Len(parts) THEN {[err |-> FALSE, out |-> buf]}
    ELSE IF IsExpression(parts[i]) /\ Len(PresentTerms(parts[i])) = 0
    THEN WithoutAbsent(parts, buf, i + 1)
    ELSE UNION {IF r.err THEN {[err |-> TRUE, out |-> <<>>]}
                ELSE WithoutAbsent(parts, r.buf, i + 1) :
                  r \in expand(PresentOnly(parts[i]), buf, values)}

\* an absent term leaves no value, no name and no separator, whatever the
\* other terms are bound to
AbsentContributeNothing == result \in WithoutAbsent(template.parts, <<>>, 1)

\* the literal parts, and for every expression its operator prefix followed
\* by the renderings of its present terms
RECURSIVE PrefixAndRenderings(_, _)
PrefixAndRenderings(parts, i) ==
    IF i > Len(parts) THEN <<>>
    ELSE (IF IsExpression(parts[i])
          THEN parts[i].first \o JoinRenderings(parts[i], PresentTerms(parts[i]), 1)
          ELSE parts[i].raw)
         \o PrefixAndRenderings(parts, i + 1)

\* C2 as claimed: in every expansion an absent term contributes nothing,
\* neither a value, a name nor a separator; and when the present terms are
\* bound to non-empty scalars, each expression's output is its operator
\* prefix, then the renderings of exactly its present terms in declaration
\* order, with one separator between consecutive renderings and none before
\* or after.
C2_AbsentOmitted ==
    Expanded =>
        /\ AbsentContributeNothing
        /\ AllTerms(NonEmptyScalar) =>
              result = [err |-> FALSE, out |-> PrefixAndRenderings(template.parts, 1)]

\* as PrefixAndRenderings, but an expression without a present term writes
\* nothing, not even its operator prefix
RECURSIVE PrefixIfPresent(_, _)
PrefixIfPresent(parts, i) ==
    IF i > Len(parts) THEN <<>>
    ELSE (IF ~IsExpression(parts[i]) THEN parts[i].raw
          ELSE IF Len(PresentTerms(parts[i])) = 0 THEN <<>>
          ELSE parts[i].first \o JoinRenderings(parts[i], PresentTerms(parts[i]), 1))
         \o PrefixIfPresent(parts, i + 1)

\* C2 as amended: in every expansion an absent term contributes nothing,
\* neither a value, a name nor a separator; and when the present terms are
\* bound to non-empty scalars, the output of an expression with a present
\* term is its operator prefix, then the renderings of exactly its present
\* terms in declaration order, with one separator between consecutive
\* renderings and none before or after, and the output of an expression
\* without a present term is empty, without the operator prefix.
C2_AbsentOmittedAmended ==
    Expanded =>
        /\ AbsentContributeNothing
        /\ AllTerms(NonEmptyScalar) =>
              result = [err |-> FALSE, out |-> PrefixIfPresent(template.parts, 1)]

\* an expression under a named operator whose first term is absent and whose
\* second term is bound to a non-empty scalar was expanded, and the output is
\* the prefix and the one rendering between the literals
C2_Witness ==
    /\ Expanded
    /\ AllTerms(NonEmptyScalar)
    /\ \E i \in 1..Len(template.parts) :
          /\ Len(template.parts[i].terms) >= 2
          /\ ~Bound(template.parts[i].terms[1])
          /\ Bound(template.parts[i].terms[2])
          /\ template.parts[i].named
    /\ ~result.err
    /\ result.out = PrefixIfPresent(template.parts, 1)
    /\ result.out # LiteralText(template.parts, 1)

(***************************************************************************)
(* C6  Truncation.                                                         *)
(***************************************************************************)
\* the number of bytes of the first n characters of s, from byte i on
RECURSIVE RunePrefixLen(_, _, _)
RunePrefixLen(s, i, n) ==
    IF n = 0 \/ i > Len(s) THEN i - 1
    ELSE RunePrefixLen(s, i + RuneWidth(s, i), n - 1)

RunePrefix(s, n) == SubSeq(s, 1, RunePrefixLen(s, 1, n))

\* C6 as claimed: in a template of one expression with one term that has
\* truncate = n > 0 and is bound to a non-empty scalar, the value rendered is
\* the percent-encoding of the first n characters of the scalar (of the whole
\* scalar when it has at most n characters), also when a character takes
\* more than one byte.
C6_Truncation ==
    (/\ Expanded
     /\ Len(template.parts) = 3
     /\ Len(template.parts[2].terms) = 1
     /\ IsPositive(template.parts[2].terms[1].truncate)
     /\ Bound(template.parts[2].terms[1])
     /\ values[template.parts[2].terms[1].name].kind = "string"
     /\ values[template.parts[2].terms[1].name].s # <<>>)
        => LET t == template.parts[2]
               term == t.terms[1]
               s == values[term.name].s
               n == IF LenExceeds(Len(s), term.truncate)
                    THEN DecimalValue(term.truncate.mag)
                    ELSE Len(s)
               cut == RunePrefix(s, n)
           IN result = [err |-> FALSE,
                        out |-> template.parts[1].raw
                                \o t.first
                                \o expandName(t, <<>>, term.name, FALSE)
                                \o escape(cut, t.allowReserved)
                                \o template.parts[3].raw]

(***************************************************************************)
(* C8  Truncating a map fails with no partial result.                      *)
(***************************************************************************)
TruncatedMap(t, term) ==
    /\ IsPositive(term.truncate)
    /\ Bound(term)
    /\ values[term.name].kind = "map"

\* C8: when a term with truncate > 0 is bound to a map, empty or not,
\* Template.Expand returns an error and no output, whatever came before it.
C8_MapTruncationFails ==
    (Expanded /\ SomeTerm(TruncatedMap))
        => result = [err |-> TRUE, out |-> <<>>]

\* a template that starts with literal text and an expression whose first
\* term rendered a scalar, and whose later term truncates a non-empty map,
\* was expanded
C8_Witness ==
    /\ Expanded
    /\ template.parts[1].raw # <<>>
    /\ \E i \in 1..Len(template.parts) :
          /\ Len(template.parts[i].terms) >= 2
          /\ Bound(template.parts[i].terms[1])
          /\ values[template.parts[i].terms[1].name].kind = "string"
          /\ values[template.parts[i].terms[1].name].s # <<>>
          /\ TruncatedMap(template.parts[i], template.parts[i].terms[2])
          /\ values[template.parts[i].terms[2].name].m # {}
    /\ result.err
    /\ result.out = <<>>

(***************************************************************************)
(* C9  An empty collection contributes nothing.                            *)
(***************************************************************************)
Without(vals, name) == [k \in (DOMAIN vals) \ {name} |-> vals[k]]

\* C9 as claimed: whenever the expansion returns an output, it is the output
\* of the same template with every term that is bound to an empty list or an
\* empty map left out of the environment.
C9_EmptyCollectionIsAbsent ==
    (Expanded /\ ~result.err)
        => \A name \in DOMAIN values :
              values[name] \in {ListValue(<<>>), MapValue({})}
                  => result \in TemplateExpand(template, Without(values, name))

(***************************************************************************)
(* The term specifications a template string is written with, read off     *)
(* the string: the comma-separated items of every {...} body, after its    *)
(* operator character.                                                     *)
(***************************************************************************)
Parsed == pc # "parse"

ExpressionBodies(r) ==
    LET split == Split(r, LBRACE)
    IN {Split(split[j], RBRACE)[1] : j \in 2..Len(split)}

StripOperator(body) ==
    IF Len(body) > 0 /\ body[1] \in Operators THEN Tail(body) ELSE body

TermItems(r) ==
    UNION {LET items == Split(StripOperator(b), COMMA)
           IN {items[k] : k \in 1..Len(items)} : b \in ExpressionBodies(r)}

WithoutStar(item) ==
    IF HasSuffix(item, STAR) THEN SubSeq(item, 1, Len(item) - 1) ELSE item

ItemName(item) == Split(WithoutStar(item), COLON)[1]

IsDecimal(l) == Len(l) > 0 /\ \A i \in 1..Len(l) : l[i] \in Digit

\* name:n* with a valid name and a decimal n >= 0
BothModifiers(item) ==
    /\ HasSuffix(item, STAR)
    /\ Len(Split(WithoutStar(item), COLON)) = 2
    /\ validname(ItemName(item))
    /\ IsDecimal(Split(WithoutStar(item), COLON)[2])

\* name:length with exactly one colon and a length that is no decimal n >= 0
BadLength(item) ==
    /\ Len(Split(WithoutStar(item), COLON)) = 2
    /\ ~IsDecimal(Split(WithoutStar(item), COLON)[2])

(***************************************************************************)
(* C3  Explode and prefix modifiers are mutually exclusive.                *)
(***************************************************************************)
\* C3 as claimed: a template with a term specification name:n* (valid name,
\* decimal n >= 0) makes Parse return a parse error and no template.
C3_MutuallyExclusive ==
    (Parsed /\ \E item \in TermItems(raw) : BothModifiers(item))
        => template.err /\ template.nil

(***************************************************************************)
(* C7  Parse is total and rejects invalid names.                           *)
(***************************************************************************)
\* C7 as claimed: Parse always returns, with either a template or an error
\* and never both or neither, and a term specification whose name is invalid
\* (the empty name of an empty body included) gives an error and no template.
C7_ParseTotal ==
    Parsed =>
        /\ ~template.panic
        /\ template.err <=> template.nil
        /\ (\E item \in TermItems(raw) : ~validname(ItemName(item)))
              => template.err /\ template.nil

(***************************************************************************)
(* C10  The truncate length of a parsed term is never negative.            *)
(***************************************************************************)
NonNegativeTruncate(t, term) == ~term.truncate.neg

\* C10 as claimed: every term of a template that Parse returned has
\* truncate >= 0, and a term specification with one colon whose length is
\* empty, non-numeric or negative gives an error and no template.
C10_TruncateNonNegative ==
    Parsed =>
        /\ ~template.nil => AllTerms(NonNegativeTruncate)
        /\ (\E item \in TermItems(raw) : BadLength(item))
              => template.err /\ template.nil

(***************************************************************************)
(* C5  Determinism and reuse.                                              *)
(***************************************************************************)
\* C5 as claimed: two calls of Template.Expand on the same Template with the
\* same environment return identical results, whatever calls came between.
C5_Determinism ==
    (Expanded /\ earlier.made /\ earlier.values = values)
        => result = earlier.result

(***************************************************************************)
(* C4  Encoding correctness.                                               *)
(***************************************************************************)
\* the two sets of bytes as the claim lists them
ClaimUnreserved ==
    (65..90) \cup (97..122) \cup (48..57) \cup {45, 46, 95, 126}   \* A-Z a-z 0-9 - . _ ~

ClaimReserved ==
    ClaimUnreserved
    \cup {58, 47, 63, 35, 91, 93, 64}                    \* : / ? # [ ] @
    \cup {33, 36, 38, 39, 40, 41, 42, 43, 44, 59, 61}    \* ! $ & ' ( ) * + , ; =

UpperHexDigit(d) == IF d < 10 THEN 48 + d ELSE 55 + d

\* one byte, byte by byte: itself when allowed, else %XX
EncodedByte(b, allowed) ==
    IF b \in allowed THEN <<b>>
    ELSE <<PERCENT, UpperHexDigit(b \div 16), UpperHexDigit(b % 16)>>

RECURSIVE EncodedBytes(_, _, _)
EncodedBytes(s, i, allowed) ==
    IF i > Len(s) THEN <<>>
    ELSE EncodedByte(s[i], allowed) \o EncodedBytes(s, i + 1, allowed)

\* C4: the value an expression renders is its input with every byte outside
\* the applicable set (reserved-allowed under + and #, unreserved under every
\* other operator) replaced by % and the two uppercase hex digits of that
\* byte, byte by byte, and every other byte unchanged.
C4_EncodingCorrect ==
    pc = "escaped"
        => escaped = EncodedBytes(src, 1, IF raw[2] \in {PLUS, HASH} THEN ClaimReserved
                                          ELSE ClaimUnreserved)

\* "/é" was rendered under the # operator: / is kept and the two bytes of é
\* give %C3%A9
C4_Witness ==
    /\ pc = "escaped"
    /\ raw = <<LBRACE, HASH, 120, RBRACE>>
    /\ src = <<47, 195, 169>>
    /\ escaped = <<47, 37, 67, 51, 37, 65, 57>>

====
